---------------------------- MODULE Spec2Model ----------------------------
(***************************************************************************)
(* A model of the Letterbox interpreter (rs-letterbox): the tokenizer      *)
(* (lexerbox.rs), the variable store (storage.rs) and the evaluator        *)
(* (program.rs).                                                           *)
(*                                                                         *)
(* Representation.  A text (Rust String / &str) is a sequence of           *)
(* one-character strings.  A Number (f64) n is held as the integer 10 * n  *)
(* (decimal tenths), so that 3.9 and 5.5 exist; the literals and inputs    *)
(* the model draws have at most one fractional digit and are not "-0",     *)
(* and on those values addition, subtraction, comparison, floor and        *)
(* display agree with the f64 operations of the source.                    *)
(***************************************************************************)
EXTENDS Integers, Sequences, FiniteSets, TLC

(***************************************************************************)
(* Characters                                                              *)
(***************************************************************************)
Lower ==
    {"a","b","c","d","e","f","g","h","i","j","k","l","m",
     "n","o","p","q","r","s","t","u","v","w","x","y","z"}

Upper ==
    {"A","B","C","D","E","F","G","H","I","J","K","L","M",
     "N","O","P","Q","R","S","T","U","V","W","X","Y","Z"}

DigitChars == <<"0","1","2","3","4","5","6","7","8","9">>

Digits == {DigitChars[i] : i \in 1..10}

Whitespace == {" ", "\t", "\n", "\f", "\r"}

DigitVal(c) == (CHOOSE i \in 1..10 : DigitChars[i] = c) - 1

\* The character of s at index i (1-based), or "" past the end.
At(s, i) == IF i >= 1 /\ i <= Len(s) THEN s[i] ELSE ""

Max(a, b) == IF a >= b THEN a ELSE b

Abs(n) == IF n < 0 THEN 0 - n ELSE n

Last(s) == s[Len(s)]

(***************************************************************************)
(* Values (program.rs, enum Val) and their display                         *)
(***************************************************************************)
Number(n) == [k |-> "Number", n |-> n, s |-> <<>>]

Text(s) == [k |-> "Text", n |-> 0, s |-> s]

\* Val::zero()
zero == Number(0)

RECURSIVE NatDigits(_)
\* The decimal digits of a natural number
NatDigits(n) ==
    IF n < 10 THEN <<DigitChars[n + 1]>>
    ELSE NatDigits(n \div 10) \o <<DigitChars[(n % 10) + 1]>>

\* format!("{}", num) of an f64 held in tenths: no trailing ".0"
FormatNum(n) ==
    (IF n < 0 THEN <<"-">> ELSE <<>>)
        \o NatDigits(Abs(n) \div 10)
        \o (IF Abs(n) % 10 = 0 THEN <<>> ELSE <<".", DigitChars[(Abs(n) % 10) + 1]>>)

\* impl fmt::Display for Val
Display(val) == IF val.k = "Text" THEN val.s ELSE FormatNum(val.n)

\* f64::floor, in units (an i64 after the cast)
Floor(n) == n \div 10

RECURSIVE DigitsValue(_)
DigitsValue(ds) ==
    IF Len(ds) = 0 THEN 0
    ELSE 10 * DigitsValue(SubSeq(ds, 1, Len(ds) - 1)) + DigitVal(Last(ds))

\* str::parse::<f64>() on decimal texts: [sign] digits [. digit]; every
\* other text the model draws is not a number.  Result in tenths.
parse_f64(s) ==
    LET neg == At(s, 1) = "-"
        pos == At(s, 1) = "+"
        b   == IF neg \/ pos THEN 2 ELSE 1
        dot == IF \E i \in b..Len(s) : s[i] = "."
               THEN CHOOSE i \in b..Len(s) : s[i] = "." /\ \A j \in b..(i-1) : s[j] # "."
               ELSE Len(s) + 1
        ip  == SubSeq(s, b, dot - 1)
        fp  == SubSeq(s, dot + 1, Len(s))
        wf  == /\ \A i \in 1..Len(ip) : ip[i] \in Digits
               /\ \A i \in 1..Len(fp) : fp[i] \in Digits
               /\ Len(ip) + Len(fp) > 0
               /\ Len(fp) <= 1
        mag == 10 * DigitsValue(ip) + (IF Len(fp) = 1 THEN DigitVal(fp[1]) ELSE 0)
    IN  IF wf THEN [ok |-> TRUE, n |-> IF neg THEN 0 - mag ELSE mag]
        ELSE [ok |-> FALSE, n |-> 0]

(***************************************************************************)
(* Results: Result<(), String>                                             *)
(***************************************************************************)
Ok == [ok |-> TRUE, msg |-> <<>>]

Err(m) == [ok |-> FALSE, msg |-> m]

(***************************************************************************)
(* The variable store (storage.rs).  A store is a function from the keys   *)
(* present in the HashMap to their values.                                 *)
(***************************************************************************)
VALID_VARS == Lower

is_var(c) == c \in VALID_VARS

\* Storage::new()
NewStorage == [x \in {} |-> zero]

\* HashMap::insert
Insert(d, v, val) == [x \in (DOMAIN d) \cup {v} |-> IF x = v THEN val ELSE d[x]]

\* Storage::get_var: None for a name that is no variable; otherwise the
\* value, inserted as zero when absent.  Yields the store after the call.
get_var(d, v) ==
    IF ~is_var(v) THEN [some |-> FALSE, val |-> zero, data |-> d]
    ELSE IF v \in DOMAIN d THEN [some |-> TRUE, val |-> d[v], data |-> d]
    ELSE [some |-> TRUE, val |-> zero, data |-> Insert(d, v, zero)]

\* Storage::set_var
set_var(d, v, val) == Insert(d, v, val)

\* Storage::reset_var
reset_var(d, v) == [x \in (DOMAIN d) \ {v} |-> d[x]]

\* reset_all that clears nothing
reset_all_keep(d) == d

\* Storage::reset_all
reset_all(d) == NewStorage

\* Storage::copy
copy(d, from, to) ==
    LET g == get_var(d, from) IN set_var(g.data, to, g.val)

\* var_as_bool that takes the empty string for false
var_as_bool_nonempty(d, v) ==
    LET g == get_var(d, v)
    IN  [some |-> g.some,
         b    |-> IF g.val.k = "Number" THEN g.val.n # 0 ELSE Len(g.val.s) > 0,
         data |-> g.data]

\* Storage::var_as_bool
var_as_bool(d, v) ==
    LET g == get_var(d, v)
    IN  [some |-> g.some,
         b    |-> IF g.val.k = "Number" THEN g.val.n # 0 ELSE TRUE,
         data |-> g.data]

\* What a read of v returns, for every letter
Read(d, v) == get_var(d, v).val

ReadAll(d) == [v \in VALID_VARS |-> Read(d, v)]

(***************************************************************************)
(* The tokenizer (lexerbox.rs).  An instruction is a record [t, a]: the    *)
(* variant's name and the tuple of its arguments.  The patterns of enum    *)
(* LBT are matched by maximal munch at the current position; a callback    *)
(* that returns None turns the match into Error.                           *)
(***************************************************************************)
Ins(t, a) == [t |-> t, a |-> a]

ErrorToken == Ins("Error", <<>>)

RECURSIVE RunLen(_, _, _)
\* The number of consecutive characters of s from index i that are in set S
RunLen(s, i, S) ==
    IF i <= Len(s) /\ s[i] \in S THEN 1 + RunLen(s, i + 1, S) ELSE 0

RECURSIVE RunLenNot(_, _, _)
\* The number of consecutive characters of s from index i that are not in S
RunLenNot(s, i, S) ==
    IF i <= Len(s) /\ s[i] \notin S THEN 1 + RunLenNot(s, i + 1, S) ELSE 0

\* Length of the match of \-?[0-9]+(\.[0-9]+)? at index j, 0 when none
NumberLen(s, j) ==
    LET k == IF At(s, j) = "-" THEN j + 1 ELSE j
        d == RunLen(s, k, Digits)
        e == k + d
        f == IF At(s, e) = "." THEN RunLen(s, e + 1, Digits) ELSE 0
    IN  IF d = 0 THEN 0
        ELSE IF f > 0 THEN (e + 1 + f) - j
        ELSE e - j

\* Length of the match of '[^']*' at index j, 0 when none
QuoteLen(s, j) ==
    LET r == RunLenNot(s, j + 1, {"'"})
    IN  IF At(s, j) = "'" /\ At(s, j + 1 + r) = "'" THEN r + 2 ELSE 0

\* Length of the longest match of a pattern of LBT at index i, 0 when none
MatchLen(s, i) ==
    LET c  == s[i]
        v1 == At(s, i + 1) \in Lower
    IN  CASE c = "S" ->
                IF ~v1 THEN 0
                ELSE IF NumberLen(s, i + 2) > 0 THEN 2 + NumberLen(s, i + 2)
                ELSE IF QuoteLen(s, i + 2) > 0 THEN 2 + QuoteLen(s, i + 2)
                ELSE 0
          [] c = "C" -> IF v1 /\ At(s, i + 2) \in Lower THEN 3 ELSE 0
          [] c = "P" ->
                IF v1 THEN 2
                ELSE IF QuoteLen(s, i + 1) > 0 THEN 1 + QuoteLen(s, i + 1)
                ELSE 0
          [] c \in {"M", "B"} ->
                IF At(s, i + 1) \in Upper /\ RunLen(s, i + 2, Lower) >= 3 THEN 5 ELSE 0
          [] c \in {"L", "I", "W"} ->
                IF v1 /\ RunLen(s, i + 2, Lower \cup Upper) > 0
                THEN 2 + RunLen(s, i + 2, Lower \cup Upper)
                ELSE 0
          [] c = "R" -> IF v1 \/ At(s, i + 1) = "A" THEN 2 ELSE 0
          [] c = "G" ->
                IF At(s, i + 1) \in Upper /\ At(s, i + 2) \in Lower
                   /\ RunLen(s, i + 3, Digits) > 0
                THEN 3 + RunLen(s, i + 3, Digits)
                ELSE 0
          [] c = "N" -> IF v1 THEN 2 ELSE 0
          [] c = "F" -> 1
          [] c = "X" -> IF v1 THEN 2 + 2 * (RunLen(s, i + 2, Lower) \div 2) ELSE 0
          [] OTHER -> 0

RECURSIVE trim_matches(_, _)
\* str::trim_matches(c): strips every leading and trailing c
trim_matches(s, c) ==
    IF Len(s) > 0 /\ s[1] = c THEN trim_matches(Tail(s), c)
    ELSE IF Len(s) > 0 /\ Last(s) = c THEN trim_matches(SubSeq(s, 1, Len(s) - 1), c)
    ELSE s

\* &token[n..]
From(token, n) == SubSeq(token, n + 1, Len(token))

save_number(token) ==
    LET num == parse_f64(From(token, 2))
    IN  IF num.ok THEN Ins("SaveNumber", <<token[2], num.n>>) ELSE ErrorToken

save_str(token) == Ins("SaveStr", <<token[2], trim_matches(From(token, 2), "'")>>)

copy_token(token) == Ins("Copy", <<token[2], token[3]>>)

single_var_arg(t, token) == Ins(t, <<token[2]>>)

print_str(token) == Ins("PrintStr", <<trim_matches(From(token, 1), "'")>>)

math_op(token) ==
    IF Len(token) - 1 # 4 \/ token[2] \notin {"A","S","M","D","E","G","L","R"}
    THEN ErrorToken
    ELSE Ins("MathOp", <<token[2], token[3], token[4], token[5]>>)

bool_op(token) ==
    IF Len(token) - 1 # 4 \/ token[2] \notin {"E","A","O","X"}
    THEN ErrorToken
    ELSE Ins("BoolOp", <<token[2], token[3], token[4], token[5]>>)

execute_var(token) == Ins("Execute", <<token[2], From(token, 2)>>)

get_input(token) ==
    LET num == parse_f64(From(token, 3))
    IN  IF token[2] \notin {"N", "S"} \/ ~num.ok THEN ErrorToken
        ELSE Ins("GetInput", <<token[2], token[3], num.n>>)

\* End of a comment ![^\n\r]* that starts at index i: the index after it
CommentEnd(s, i) == i + 1 + RunLenNot(s, i + 1, {"\n", "\r"})

RECURSIVE LexFrom(_, _)
RECURSIVE Token(_)

\* lex_sub: a new lexer on the subcommand's text, and its first token
lex_sub(sub) ==
    LET toks == LexFrom(sub, 1)
    IN  IF Len(toks) = 0 THEN [some |-> FALSE, tok |-> ErrorToken]
        ELSE [some |-> TRUE, tok |-> toks[1]]

\* base_loop, for the pattern that matched (Loop, IfStatement or WhileLoop)
base_loop(t, token) ==
    LET cmd == lex_sub(From(token, 2))
    IN  IF Len(From(token, 2)) <= 0 \/ ~cmd.some THEN ErrorToken
        ELSE Ins(t, <<token[2], cmd.tok>>)

\* The instruction of a matched slice: the pattern's callback
Token(token) ==
    LET c == token[1]
    IN  CASE c = "S" -> IF token[3] = "'" THEN save_str(token) ELSE save_number(token)
          [] c = "C" -> copy_token(token)
          [] c = "P" -> IF token[2] = "'" THEN print_str(token)
                        ELSE single_var_arg("PrintVar", token)
          [] c = "M" -> math_op(token)
          [] c = "B" -> bool_op(token)
          [] c = "L" -> base_loop("Loop", token)
          [] c = "I" -> base_loop("IfStatement", token)
          [] c = "W" -> base_loop("WhileLoop", token)
          [] c = "R" -> IF token[2] = "A" THEN Ins("ResetAll", <<>>)
                        ELSE single_var_arg("ResetVar", token)
          [] c = "G" -> get_input(token)
          [] c = "N" -> single_var_arg("Negate", token)
          [] c = "F" -> Ins("Finish", <<>>)
          [] c = "X" -> execute_var(token)
          [] OTHER -> ErrorToken

\* The tokens of s from index i on.  Whitespace and comments are skipped;
\* a character that starts no match is an Error token.
LexFrom(s, i) ==
    IF i > Len(s) THEN <<>>
    ELSE IF s[i] \in Whitespace THEN LexFrom(s, i + RunLen(s, i, Whitespace))
    ELSE IF s[i] = "!" THEN LexFrom(s, CommentEnd(s, i))
    ELSE LET m == MatchLen(s, i)
         IN  IF m = 0 THEN <<ErrorToken>> \o LexFrom(s, i + 1)
             ELSE <<Token(SubSeq(s, i, i + m - 1))>> \o LexFrom(s, i + m)

\* LBT::lexer(text).collect()
Lex(s) == LexFrom(s, 1)

(***************************************************************************)
(* Program::apply_argmap (program.rs)                                      *)
(***************************************************************************)
Placeholder == <<"%", "%", "%">>

RECURSIVE find_iter(_, _)
\* rx_quotes.find_iter(&raw): the leftmost non-overlapping matches of
\* '[^']*' from index i on, in order
find_iter(raw, i) ==
    IF i > Len(raw) THEN <<>>
    ELSE IF QuoteLen(raw, i) > 0
         THEN <<SubSeq(raw, i, i + QuoteLen(raw, i) - 1)>>
                  \o find_iter(raw, i + QuoteLen(raw, i))
         ELSE find_iter(raw, i + 1)

RECURSIVE replace_all(_, _)
\* rx_quotes.replace_all(&raw, "%%%") from index i on
replace_all(raw, i) ==
    IF i > Len(raw) THEN <<>>
    ELSE IF QuoteLen(raw, i) > 0
         THEN Placeholder \o replace_all(raw, i + QuoteLen(raw, i))
         ELSE <<raw[i]>> \o replace_all(raw, i + 1)

\* str::replace(param, arg) for one-character patterns
replace(text, param, arg) ==
    [i \in 1..Len(text) |-> IF text[i] = param THEN arg ELSE text[i]]

RECURSIVE substitute(_, _, _)
\* The loop over the pairs of argmap, from pair index i (0-based, step 2)
substitute(text, argvec, i) ==
    IF i >= Len(argvec) THEN text
    ELSE substitute(replace(text, argvec[i + 1], argvec[i + 2]), argvec, i + 2)

\* Whether pat occurs in text at index i
OccursAt(text, pat, i) ==
    /\ i + Len(pat) - 1 <= Len(text)
    /\ \A j \in 1..Len(pat) : text[i + j - 1] = pat[j]

\* str::replacen(pat, with, 1): the first occurrence only
replacen1(text, pat, with) ==
    IF \E i \in 1..Len(text) : OccursAt(text, pat, i)
    THEN LET i == CHOOSE i \in 1..Len(text) :
                      /\ OccursAt(text, pat, i)
                      /\ \A j \in 1..(i - 1) : ~OccursAt(text, pat, j)
         IN  SubSeq(text, 1, i - 1) \o with \o SubSeq(text, i + Len(pat), Len(text))
    ELSE text

RECURSIVE restore(_, _, _)
\* "put the quotes back": one replacen per quoted string, in order
restore(text, quotes, k) ==
    IF k > Len(quotes) THEN text
    ELSE restore(replacen1(text, Placeholder, quotes[k]), quotes, k + 1)

apply_argmap(raw, argmap) ==
    LET quoted_strings   == find_iter(raw, 1)
        text_no_quotes   == replace_all(raw, 1)
        replaceable_text == substitute(text_no_quotes, argmap, 0)
    IN  restore(replaceable_text, quoted_strings, 1)

(***************************************************************************)
(* The evaluator (program.rs).                                             *)
(*                                                                         *)
(* Recursion is ordinary call-stack recursion, so the model keeps the call *)
(* stack: a Program frame per Program whose run() is active (the top-level *)
(* one first, then one per nested Execute) and a frame per Loop or         *)
(* WhileLoop whose body is being evaluated.  ctl is the point of control:  *)
(*   "run"   at the head of run()'s loop of the Program on top             *)
(*   "eval"  evaluate(ctl.cmd) has just been called                        *)
(*   "loop"  at the head of the Loop on top                                *)
(*   "while" at the head of the WhileLoop on top                           *)
(*   "ret"   evaluate returned ctl.res to the frame on top                 *)
(*   "done"  the top-level run() returned ctl.res                          *)
(* trace and last_exec record history: every call of evaluate, and the     *)
(* last parameter substitution made by Execute.                            *)
(***************************************************************************)
VARIABLES stack, ctl, data, input_vec, output_buffer, trace, last_exec

vars == <<stack, ctl, data, input_vec, output_buffer, trace, last_exec>>

\* The longest history the model follows: no call of evaluate beyond it
MaxTrace == 10

\* The largest magnitude (in tenths) the model lets arithmetic produce
MaxNum == 100

NoCmd == Ins("None", <<>>)

Ctl(op, cmd, res) == [op |-> op, cmd |-> cmd, res |-> res]

NoExec == [n |-> 0, raw |-> <<>>, argmap |-> <<>>, text |-> <<>>]

\* Program::new: the Program, and the store, input vector and output
\* buffer its references point to
Program_new(plist, starting_data, inv, out, loop_limit) ==
    [prog |-> [k               |-> "Program",
               program_list    |-> plist,
               program_counter |-> 0,
               finished        |-> FALSE,
               result          |-> Ok,
               loop_limit      |-> loop_limit],
     data |-> starting_data,
     input_vec |-> inv,
     output_buffer |-> out]

\* The local state of a Loop being evaluated: `loops`, plus the history of
\* the count read on entry and the number of body evaluations started
LoopFrame(loops, sub, entry) ==
    [k |-> "Loop", loops |-> loops, subcommand |-> sub, entry |-> entry, runs |-> 0]

\* The local state of a WhileLoop being evaluated, plus the history of the
\* value of cond on entry and the number of body evaluations started
WhileFrame(cond, sub, entry) ==
    [k |-> "WhileLoop", cond |-> cond, subcommand |-> sub, entry |-> entry, runs |-> 0]

Top == stack[Len(stack)]

Pop == SubSeq(stack, 1, Len(stack) - 1)

\* The index in the stack of `self`: the innermost Program
SelfIdxOf(st) ==
    CHOOSE i \in 1..Len(st) :
        /\ st[i].k = "Program"
        /\ \A j \in (i + 1)..Len(st) : st[j].k # "Program"

SelfIdx == SelfIdxOf(stack)

Self == stack[SelfIdx]

\* The effect of an instruction that returns at once
Eff(d, out, res) == [data |-> d, output_buffer |-> out, res |-> res]

\* A call of evaluate(cmd) with stack st, from step() or from a construct
Evaluate(cmd, st, by_step) ==
    /\ Len(trace) < MaxTrace
    /\ ctl' = Ctl("eval", cmd, Ok)
    /\ trace' = Append(trace, [depth |-> Len(st),
                               pc    |-> st[SelfIdxOf(st)].program_counter,
                               t     |-> cmd.t,
                               step  |-> by_step])

\* evaluate returns res to the frame on top of st
Return(res) == ctl' = Ctl("ret", NoCmd, res)

IsEval(t) == ctl.op = "eval" /\ ctl.cmd.t = t

\* An instruction that returns at once: its effect, then the return
Apply(e) ==
    /\ data' = e.data
    /\ output_buffer' = e.output_buffer
    /\ Return(e.res)
    /\ UNCHANGED <<stack, input_vec, trace, last_exec>>

(***************************************************************************)
(* evaluate: the instructions that return at once                          *)
(***************************************************************************)
eval_SaveNumber(a, d, out) == Eff(set_var(d, a[1], Number(a[2])), out, Ok)

eval_SaveStr(a, d, out) == Eff(set_var(d, a[1], Text(a[2])), out, Ok)

eval_Copy(a, d, out) == Eff(copy(d, a[1], a[2]), out, Ok)

\* PrintVar that replaces the content of the buffer
eval_PrintVar_overwrite(a, d, out) ==
    LET g == get_var(d, a[1]) IN Eff(g.data, Display(g.val), Ok)


eval_PrintVar(a, d, out) ==
    LET g == get_var(d, a[1]) IN Eff(g.data, out \o Display(g.val), Ok)

eval_PrintStr(a, d, out) == Eff(d, out \o a[1], Ok)

\* Whether the model holds the result of n_a op n_b: an exact number of
\* tenths, finite and within MaxNum
Representable(op, n_a, n_b) ==
    CASE op = "A" -> Abs(n_a + n_b) <= MaxNum
      [] op = "S" -> Abs(n_a - n_b) <= MaxNum
      [] op = "M" -> (n_a * n_b) % 10 = 0 /\ Abs(n_a * n_b) <= 10 * MaxNum
      [] op = "D" -> n_b # 0 /\ (Abs(n_a) * 10) % Abs(n_b) = 0
                     /\ Abs(n_a) * 10 <= MaxNum * Abs(n_b)
      [] op = "R" -> n_b # 0
      [] OTHER -> TRUE

Sign(n) == IF n < 0 THEN 0 - 1 ELSE 1

\* The match on op of MathOp, on representable operands
MathResult(op, n_a, n_b) ==
    CASE op = "A" -> n_a + n_b
      [] op = "S" -> n_a - n_b
      [] op = "M" -> Sign(n_a) * Sign(n_b) * ((Abs(n_a) * Abs(n_b)) \div 10)
      [] op = "D" -> Sign(n_a) * Sign(n_b) * ((Abs(n_a) * 10) \div Abs(n_b))
      [] op = "R" -> Sign(n_a) * (Abs(n_a) % Abs(n_b))
      [] op = "E" -> IF n_a = n_b THEN 10 ELSE 0
      [] op = "G" -> IF n_a > n_b THEN 10 ELSE 0
      [] op = "L" -> IF n_a < n_b THEN 10 ELSE 0

\* MathOp that takes a Text operand for 0
eval_MathOp_coerce(a, d, out) ==
    LET ga == get_var(d, a[3])
        gb == get_var(ga.data, a[4])
    IN  Eff(set_var(gb.data, a[2], Number(MathResult(a[1], ga.val.n, gb.val.n))),
            out, Ok)

\* MathOp that stores a in target before it reads b
eval_MathOp_alias(a, d, out) ==
    LET ga == get_var(d, a[3])
        d1 == IF ga.val.k = "Number" THEN set_var(ga.data, a[2], ga.val) ELSE ga.data
        gb == get_var(d1, a[4])
    IN  IF ga.val.k # "Number"
        THEN Eff(ga.data, out, Err(<<"M: Variable ", a[3], " is not a number">>))
        ELSE IF gb.val.k # "Number"
        THEN Eff(gb.data, out, Err(<<"M: Variable ", a[4], " is not a number">>))
        ELSE Eff(set_var(gb.data, a[2], Number(MathResult(a[1], ga.val.n, gb.val.n))),
                 out, Ok)

\* The arm MathOp of evaluate
eval_MathOp(a, d, out) ==
    LET ga == get_var(d, a[3])
        gb == get_var(ga.data, a[4])
    IN  IF ga.val.k # "Number"
        THEN Eff(ga.data, out, Err(<<"M: Variable ", a[3], " is not a number">>))
        ELSE IF gb.val.k # "Number"
        THEN Eff(gb.data, out, Err(<<"M: Variable ", a[4], " is not a number">>))
        ELSE IF a[1] \notin {"A","S","M","D","R","E","G","L"}
        THEN Eff(gb.data, out, Err(<<"M: Invalid op ", a[1]>>))
        ELSE Eff(set_var(gb.data, a[2], Number(MathResult(a[1], ga.val.n, gb.val.n))),
                 out, Ok)

\* The match on op of BoolOp with X computed as an inclusive or
BoolResult_xor_as_or(op, b_a, b_b) ==
    CASE op = "E" -> IF b_a = b_b THEN 10 ELSE 0
      [] op = "A" -> IF b_a /\ b_b THEN 10 ELSE 0
      [] op = "O" -> IF b_a \/ b_b THEN 10 ELSE 0
      [] op = "X" -> IF b_a \/ b_b THEN 10 ELSE 0

\* The match on op of BoolOp
BoolResult(op, b_a, b_b) ==
    CASE op = "E" -> IF b_a = b_b THEN 10 ELSE 0
      [] op = "A" -> IF b_a /\ b_b THEN 10 ELSE 0
      [] op = "O" -> IF b_a \/ b_b THEN 10 ELSE 0
      [] op = "X" -> IF (b_a /\ ~b_b) \/ (~b_a /\ b_b) THEN 10 ELSE 0

eval_BoolOp(a, d, out) ==
    LET ga == var_as_bool(d, a[3])
        gb == var_as_bool(ga.data, a[4])
    IN  IF a[1] \notin {"E","A","O","X"}
        THEN Eff(gb.data, out, Err(<<"B: Invalid op ", a[1]>>))
        ELSE Eff(set_var(gb.data, a[2], Number(BoolResult(a[1], ga.b, gb.b))), out, Ok)

eval_ResetVar(a, d, out) == Eff(reset_var(d, a[1]), out, Ok)

\* Negate that leaves a Text as it is
eval_Negate_numeric(a, d, out) ==
    LET g == get_var(d, a[1])
    IN  IF g.val.k = "Text" THEN Eff(g.data, out, Ok)
        ELSE IF g.val.n # 0 THEN Eff(reset_var(g.data, a[1]), out, Ok)
        ELSE Eff(set_var(g.data, a[1], Number(10)), out, Ok)

\* The arm Negate of evaluate
eval_Negate(a, d, out) ==
    LET current == var_as_bool(d, a[1])
    IN  IF current.b THEN Eff(reset_var(current.data, a[1]), out, Ok)
        ELSE Eff(set_var(current.data, a[1], Number(10)), out, Ok)

eval_ResetAll(a, d, out) == Eff(reset_all(d), out, Ok)

\* GetInput that stores 0 for an input that is not a number
eval_GetInput_lenient(a, d, out, inv) ==
    LET index == Floor(a[3])
    IN  IF index + 1 > Len(inv)
        THEN Eff(d, out, Err(<<"G: no input at index ">> \o FormatNum(a[3])))
        ELSE IF a[1] = "N"
        THEN Eff(set_var(d, a[2], Number(parse_f64(inv[index + 1]).n)), out, Ok)
        ELSE Eff(set_var(d, a[2], Text(inv[index + 1])), out, Ok)

\* The arm GetInput of evaluate
eval_GetInput(a, d, out, inv) ==
    LET index == Floor(a[3])
    IN  IF index + 1 > Len(inv)
        THEN Eff(d, out, Err(<<"G: no input at index ">> \o FormatNum(a[3])))
        ELSE IF ~is_var(a[2])
        THEN Eff(d, out, Err(<<"G: character ", a[2], " is not a variable name">>))
        ELSE IF a[1] = "N"
        THEN IF parse_f64(inv[index + 1]).ok
             THEN Eff(set_var(d, a[2], Number(parse_f64(inv[index + 1]).n)), out, Ok)
             ELSE Eff(d, out, Err(<<"G: Could not parse input into number: ">>
                                      \o inv[index + 1]))
        ELSE IF a[1] = "S"
        THEN Eff(set_var(d, a[2], Text(inv[index + 1])), out, Ok)
        ELSE Eff(d, out, Err(<<"G: invalid operation ", a[1]>>))

\* The arm `_ =>` of evaluate
eval_Unrecognized(pc, d, out) ==
    Eff(d, out, Err(<<"Unrecognized instruction at counter index ">> \o NatDigits(pc)))

EvalSaveNumber == IsEval("SaveNumber") /\ Apply(eval_SaveNumber(ctl.cmd.a, data, output_buffer))

EvalSaveStr == IsEval("SaveStr") /\ Apply(eval_SaveStr(ctl.cmd.a, data, output_buffer))

EvalCopy == IsEval("Copy") /\ Apply(eval_Copy(ctl.cmd.a, data, output_buffer))

EvalPrintVar == IsEval("PrintVar") /\ Apply(eval_PrintVar(ctl.cmd.a, data, output_buffer))

EvalPrintStr == IsEval("PrintStr") /\ Apply(eval_PrintStr(ctl.cmd.a, data, output_buffer))

EvalMathOp ==
    /\ IsEval("MathOp")
    /\ LET ga == get_var(data, ctl.cmd.a[3])
           gb == get_var(data, ctl.cmd.a[4])
       IN  (ga.val.k = "Number" /\ gb.val.k = "Number")
               => Representable(ctl.cmd.a[1], ga.val.n, gb.val.n)
    /\ Apply(eval_MathOp(ctl.cmd.a, data, output_buffer))

EvalBoolOp == IsEval("BoolOp") /\ Apply(eval_BoolOp(ctl.cmd.a, data, output_buffer))

EvalResetVar == IsEval("ResetVar") /\ Apply(eval_ResetVar(ctl.cmd.a, data, output_buffer))

EvalNegate == IsEval("Negate") /\ Apply(eval_Negate(ctl.cmd.a, data, output_buffer))

EvalResetAll == IsEval("ResetAll") /\ Apply(eval_ResetAll(ctl.cmd.a, data, output_buffer))

EvalGetInput ==
    IsEval("GetInput") /\ Apply(eval_GetInput(ctl.cmd.a, data, output_buffer, input_vec))

EvalUnrecognized ==
    /\ ctl.op = "eval"
    /\ ctl.cmd.t = "Error"
    /\ Apply(eval_Unrecognized(Self.program_counter, data, output_buffer))

(***************************************************************************)
(* evaluate: Finish, Loop, IfStatement, WhileLoop, Execute                 *)
(***************************************************************************)

\* Finish that leaves finished as it is
finish_noop(prog) == prog

\* Finish: self.finished = true
finish(prog) == [prog EXCEPT !.finished = TRUE]

EvalFinish ==
    /\ IsEval("Finish")
    /\ stack' = [stack EXCEPT ![SelfIdx] = finish(Self)]
    /\ Return(Ok)
    /\ UNCHANGED <<data, input_vec, output_buffer, trace, last_exec>>

\* A count rounded to the nearest integer instead of floored
loop_count_round(t) == (t + 5) \div 10

\* let mut loops = t.floor() as i64
loop_count(t) == Floor(t)

\* Loop: reads the count; a Text count fails, a Number enters the loop
EvalLoop ==
    /\ IsEval("Loop")
    /\ LET g == get_var(data, ctl.cmd.a[1])
       IN  /\ data' = g.data
           /\ IF g.val.k # "Number"
              THEN /\ Return(Err(<<"L: Variable ", ctl.cmd.a[1], " is not a number">>))
                   /\ stack' = stack
              ELSE /\ stack' = Append(stack, LoopFrame(loop_count(g.val.n),
                                                       ctl.cmd.a[2], g.val))
                   /\ ctl' = Ctl("loop", NoCmd, Ok)
    /\ UNCHANGED <<input_vec, output_buffer, trace, last_exec>>

\* while loops > 0
loop_continues(loops) == loops > 0

\* A loop body that fails once the loop has run loop_limit times
LoopIterate_limited ==
    /\ ctl.op = "loop"
    /\ loop_continues(Top.loops)
    /\ IF Top.runs >= Self.loop_limit
       THEN /\ stack' = Pop
            /\ Return(Err(<<"L: loop limit exceeded">>))
            /\ trace' = trace
       ELSE /\ stack' = [stack EXCEPT ![Len(stack)].runs = @ + 1]
            /\ Evaluate(Top.subcommand, stack', FALSE)
    /\ UNCHANGED <<data, input_vec, output_buffer, last_exec>>

\* The head of Loop's while, loops > 0: the body is evaluated
LoopIterate ==
    /\ ctl.op = "loop"
    /\ loop_continues(Top.loops)
    /\ stack' = [stack EXCEPT ![Len(stack)].runs = @ + 1]
    /\ Evaluate(Top.subcommand, stack', FALSE)
    /\ UNCHANGED <<data, input_vec, output_buffer, last_exec>>

\* The head of Loop's while, loops <= 0: Ok(())
LoopExit ==
    /\ ctl.op = "loop"
    /\ ~loop_continues(Top.loops)
    /\ stack' = Pop
    /\ Return(Ok)
    /\ UNCHANGED <<data, input_vec, output_buffer, trace, last_exec>>

\* A loop that does not look at its body's result
body_failed_ignored(res) == FALSE

\* if let Err(msg) = self.evaluate(subcommand), in Loop and in WhileLoop
body_failed(res) == ~res.ok

\* A Loop that reads its count variable again after each body
LoopBodyReturn_reread ==
    /\ ctl.op = "ret"
    /\ Top.k = "Loop"
    /\ IF body_failed(ctl.res)
       THEN /\ stack' = Pop
            /\ Return(Err(ctl.res.msg))
       ELSE LET cmd == Self.program_list[Self.program_counter + 1]
                now == IF cmd.t = "Loop" THEN Read(data, cmd.a[1]) ELSE Top.entry
            IN  /\ stack' = [stack EXCEPT ![Len(stack)].loops =
                                 IF now.k = "Number" THEN loop_count(now.n) - Top.runs
                                 ELSE @ - 1]
                /\ ctl' = Ctl("loop", NoCmd, Ok)
    /\ UNCHANGED <<data, input_vec, output_buffer, trace, last_exec>>

\* The body of a Loop returned: an error leaves the Loop with it,
\* a success counts the iteration
LoopBodyReturn ==
    /\ ctl.op = "ret"
    /\ Top.k = "Loop"
    /\ IF body_failed(ctl.res)
       THEN /\ stack' = Pop
            /\ Return(Err(ctl.res.msg))
       ELSE /\ stack' = [stack EXCEPT ![Len(stack)].loops = @ - 1]
            /\ ctl' = Ctl("loop", NoCmd, Ok)
    /\ UNCHANGED <<data, input_vec, output_buffer, trace, last_exec>>

\* An IfStatement that evaluates its body when the condition is false
EvalIfStatement_unless ==
    /\ IsEval("IfStatement")
    /\ LET c == var_as_bool(data, ctl.cmd.a[1])
       IN  /\ data' = c.data
           /\ IF ~c.b
              THEN /\ Evaluate(ctl.cmd.a[2], stack, FALSE)
              ELSE /\ Return(Ok)
                   /\ trace' = trace
    /\ UNCHANGED <<stack, input_vec, output_buffer, last_exec>>

\* IfStatement: the body's evaluation is the statement's result when the
\* condition is true, Ok(()) otherwise
EvalIfStatement ==
    /\ IsEval("IfStatement")
    /\ LET c == var_as_bool(data, ctl.cmd.a[1])
       IN  /\ data' = c.data
           /\ IF c.b
              THEN /\ Evaluate(ctl.cmd.a[2], stack, FALSE)
              ELSE /\ Return(Ok)
                   /\ trace' = trace
    /\ UNCHANGED <<stack, input_vec, output_buffer, last_exec>>

\* A WhileLoop that evaluates its body before the first check
EvalWhileLoop_dowhile ==
    /\ IsEval("WhileLoop")
    /\ stack' = Append(stack, [WhileFrame(ctl.cmd.a[1], ctl.cmd.a[2],
                                          Read(data, ctl.cmd.a[1]))
                                   EXCEPT !.runs = 1])
    /\ Evaluate(ctl.cmd.a[2], stack', FALSE)
    /\ UNCHANGED <<data, input_vec, output_buffer, last_exec>>

\* WhileLoop: entry.  The condition is read at the head, before the first
\* iteration as before every other.
EvalWhileLoop ==
    /\ IsEval("WhileLoop")
    /\ stack' = Append(stack, WhileFrame(ctl.cmd.a[1], ctl.cmd.a[2],
                                         Read(data, ctl.cmd.a[1])))
    /\ ctl' = Ctl("while", NoCmd, Ok)
    /\ UNCHANGED <<data, input_vec, output_buffer, trace, last_exec>>

\* The condition of WhileLoop: var_as_bool(cond)
while_cond(d, cond) == var_as_bool(d, cond)

\* The head of WhileLoop, condition true: the body is evaluated
WhileIterate ==
    /\ ctl.op = "while"
    /\ while_cond(data, Top.cond).b
    /\ data' = while_cond(data, Top.cond).data
    /\ stack' = [stack EXCEPT ![Len(stack)].runs = @ + 1]
    /\ Evaluate(Top.subcommand, stack', FALSE)
    /\ UNCHANGED <<input_vec, output_buffer, last_exec>>

\* The head of WhileLoop, condition false: Ok(())
WhileExit ==
    /\ ctl.op = "while"
    /\ ~while_cond(data, Top.cond).b
    /\ data' = while_cond(data, Top.cond).data
    /\ stack' = Pop
    /\ Return(Ok)
    /\ UNCHANGED <<input_vec, output_buffer, trace, last_exec>>

\* The body of a WhileLoop returned: an error leaves the loop with it
WhileBodyReturn ==
    /\ ctl.op = "ret"
    /\ Top.k = "WhileLoop"
    /\ IF body_failed(ctl.res)
       THEN /\ stack' = Pop
            /\ Return(Err(ctl.res.msg))
       ELSE /\ stack' = stack
            /\ ctl' = Ctl("while", NoCmd, Ok)
    /\ UNCHANGED <<data, input_vec, output_buffer, trace, last_exec>>

\* Execute that takes any value for a program
is_program_any(val) == TRUE

\* Execute, "get string to execute": whether fn_var's value is a program
is_program(val) == val.k = "Text"

\* A sub-program that runs on a store of its own
sub_program_own_store(prog_with_params, d, inv, out, loop_limit) ==
    Program_new(Lex(prog_with_params), NewStorage, inv, out, loop_limit)

\* The sub-program of Execute: Program::new on the lexer of the text, with
\* this program's store, input vector, output buffer and loop limit
sub_program(prog_with_params, d, inv, out, loop_limit) ==
    Program_new(Lex(prog_with_params), d, inv, out, loop_limit)

\* Execute: validates argmap, reads fn_var, substitutes the parameters,
\* and runs the text as a new Program
EvalExecute ==
    /\ IsEval("Execute")
    /\ LET fn_var == ctl.cmd.a[1]
           argmap == ctl.cmd.a[2]
           g      == get_var(data, fn_var)
       IN  IF \E i \in 1..Len(argmap) : ~is_var(argmap[i])
           THEN /\ Return(Err(<<"X: Character ",
                                 argmap[CHOOSE i \in 1..Len(argmap) :
                                     /\ ~is_var(argmap[i])
                                     /\ \A j \in 1..(i - 1) : is_var(argmap[j])],
                                 " is not a variable name">>))
                /\ UNCHANGED <<stack, data, input_vec, output_buffer, last_exec>>
           ELSE IF ~is_program(g.val)
           THEN /\ Return(Err(<<"X: Variable ", fn_var, " is not a string">>))
                /\ data' = g.data
                /\ UNCHANGED <<stack, input_vec, output_buffer, last_exec>>
           ELSE LET text == apply_argmap(g.val.s, argmap)
                    sub  == sub_program(text, g.data, input_vec, output_buffer,
                                        Self.loop_limit)
                IN  /\ stack' = Append(stack, sub.prog)
                    /\ data' = sub.data
                    /\ input_vec' = sub.input_vec
                    /\ output_buffer' = sub.output_buffer
                    /\ ctl' = Ctl("run", NoCmd, Ok)
                    /\ last_exec' = [n |-> last_exec.n + 1, raw |-> g.val.s,
                                     argmap |-> argmap, text |-> text]
    /\ UNCHANGED trace

(***************************************************************************)
(* run and step                                                            *)
(***************************************************************************)

\* increment_counter moving the counter by two
increment_counter_skip(prog) ==
    LET next == prog.program_counter + 2
    IN  [prog EXCEPT !.program_counter = next,
                     !.finished = IF next >= Len(prog.program_list) THEN TRUE ELSE @]

\* Program::increment_counter
increment_counter(prog) ==
    LET next == prog.program_counter + 1
    IN  [prog EXCEPT !.program_counter = next,
                     !.finished = IF next >= Len(prog.program_list) THEN TRUE ELSE @]

\* run() of the Program on top returns `prog.result`: to the caller of the
\* top-level run(), or as the result of the Execute that ran it
ReturnFromRun(prog) ==
    IF Len(stack) = 1
    THEN /\ stack' = <<prog>>
         /\ ctl' = Ctl("done", NoCmd, prog.result)
    ELSE /\ stack' = Pop
         /\ Return(prog.result)

\* run: not finished; step: there is a command at the counter, evaluate it
RunStep ==
    /\ ctl.op = "run"
    /\ ~Top.finished
    /\ Top.program_counter < Len(Top.program_list)
    /\ Evaluate(Top.program_list[Top.program_counter + 1], stack, TRUE)
    /\ UNCHANGED <<stack, data, input_vec, output_buffer, last_exec>>

\* run returning the error of step when there is no command
RunNoCommand_err ==
    /\ ctl.op = "run"
    /\ ~Top.finished
    /\ Top.program_counter >= Len(Top.program_list)
    /\ ReturnFromRun([Top EXCEPT !.finished = TRUE,
                                 !.result = Err(<<"No command found at counter index ">>
                                                    \o NatDigits(Top.program_counter))])
    /\ UNCHANGED <<data, input_vec, output_buffer, trace, last_exec>>

\* run: not finished; step: no command at the counter, an error that run
\* answers by finishing and returning the result it holds
RunNoCommand ==
    /\ ctl.op = "run"
    /\ ~Top.finished
    /\ Top.program_counter >= Len(Top.program_list)
    /\ ReturnFromRun([Top EXCEPT !.finished = TRUE])
    /\ UNCHANGED <<data, input_vec, output_buffer, trace, last_exec>>

\* run: finished, the result is returned
RunFinished ==
    /\ ctl.op = "run"
    /\ Top.finished
    /\ ReturnFromRun(Top)
    /\ UNCHANGED <<data, input_vec, output_buffer, trace, last_exec>>

\* step, after evaluate succeeded: the result is kept, the counter moves
StepOk ==
    /\ ctl.op = "ret"
    /\ Top.k = "Program"
    /\ ctl.res.ok
    /\ stack' = [stack EXCEPT ![Len(stack)] =
                     increment_counter([Top EXCEPT !.result = ctl.res])]
    /\ ctl' = Ctl("run", NoCmd, Ok)
    /\ UNCHANGED <<data, input_vec, output_buffer, trace, last_exec>>

\* The Program after a failed step: the error is its result, the counter
\* stays, and run sets finished
step_failed(prog, res) == [prog EXCEPT !.result = res, !.finished = TRUE]

\* A failed step after which run empties the store and the output buffer
StepFailed_rollback ==
    /\ ctl.op = "ret"
    /\ Top.k = "Program"
    /\ ~ctl.res.ok
    /\ ReturnFromRun(step_failed(Top, ctl.res))
    /\ data' = NewStorage
    /\ output_buffer' = <<>>
    /\ UNCHANGED <<input_vec, trace, last_exec>>

\* step, after evaluate failed: step returns the error and run returns it
StepFailed ==
    /\ ctl.op = "ret"
    /\ Top.k = "Program"
    /\ ~ctl.res.ok
    /\ ReturnFromRun(step_failed(Top, ctl.res))
    /\ UNCHANGED <<data, input_vec, output_buffer, trace, last_exec>>

(***************************************************************************)
(* The programs, stores and inputs the model runs                          *)
(***************************************************************************)

\* The most instructions of a top-level source
MaxProg == 2

\* The instructions a top-level source is made of
TokenPool ==
    { <<"P","b">>,
      <<"M","S","a","a","b">>,
      <<"F">>,
      <<"Q">>,
      <<"X","c">>,
      <<"L","a","X","c">>,
      <<"I","a","X","c">>,
      <<"W","a","X","c">>,
      <<"L","a","P","b">>,
      <<"W","a","M","S","a","a","b">> }

RECURSIVE Join(_)
\* The source text of a sequence of instructions, one space between them
Join(toks) ==
    IF Len(toks) = 0 THEN <<>>
    ELSE IF Len(toks) = 1 THEN toks[1]
    ELSE toks[1] \o <<" ">> \o Join(Tail(toks))

Sources == {Join(toks) : toks \in UNION {[1..n -> TokenPool] : n \in 0..MaxProg}}

\* The program texts held by variable c
TextPool ==
    { <<"P","b">>,
      <<"M","S","a","a","b">>,
      <<"S","b","'","y","'"," ","C","b","z"," ","P","'","h","i","'"," ","N","a">>,
      <<"G","N","a","0"," ","G","S","d","1"," ","X","d"," ","G","N","a","1">>,
      <<"B","A","z","a","b"," ","R","b"," ","R","A"," ","S","a","2"," ","F"," ","P","b">>,
      <<"P","a"," ","X","c","a","b">>,
      <<"P","b"," ","Q">>,
      <<>> }

\* A store with a, b and c set; None leaves the variable unset
None == [k |-> "None", n |-> 0, s |-> <<>>]

Store(a, b, c) ==
    [x \in {y \in {"a", "b", "c"} :
                (y = "a" => a # None) /\ (y = "b" => b # None) /\ (y = "c" => c # None)}
       |-> IF x = "a" THEN a ELSE IF x = "b" THEN b ELSE c]

\* The stores a run starts from (the prompt of main.rs keeps one store over
\* all the lines it runs)
StorePool ==
    {Store(a, Number(10), c) :
        a \in {None, Number(20), Number(39), Number(0 - 5), Text(<<"x">>)},
        c \in {Text(t) : t \in TextPool} \cup {None}}
    \cup
    {Store(Number(20), Text(<<"x">>), c) :
        c \in {Text(<<"P","b">>), Text(<<"M","S","a","a","b">>), Number(10)}}

\* The input vectors (the command line's PROGRAM-ARGS)
InputPool == {<<<<"2">>, <<"P","b"," ","Q">>>>}

\* The loop limits (--looplimit; 1000 by default)
LoopLimits == {1000}

Init ==
    \E src \in Sources, st \in StorePool, inv \in InputPool, limit \in LoopLimits :
        LET p == Program_new(Lex(src), st, inv, <<>>, limit)
        IN  /\ stack = <<p.prog>>
            /\ ctl = Ctl("run", NoCmd, Ok)
            /\ data = p.data
            /\ input_vec = p.input_vec
            /\ output_buffer = p.output_buffer
            /\ trace = <<>>
            /\ last_exec = NoExec

Next ==
    \/ RunStep
    \/ RunNoCommand
    \/ RunFinished
    \/ StepOk
    \/ StepFailed
    \/ EvalSaveNumber
    \/ EvalSaveStr
    \/ EvalCopy
    \/ EvalPrintVar
    \/ EvalPrintStr
    \/ EvalMathOp
    \/ EvalBoolOp
    \/ EvalResetVar
    \/ EvalNegate
    \/ EvalResetAll
    \/ EvalGetInput
    \/ EvalUnrecognized
    \/ EvalFinish
    \/ EvalLoop
    \/ LoopIterate
    \/ LoopExit
    \/ LoopBodyReturn
    \/ EvalIfStatement
    \/ EvalWhileLoop
    \/ WhileIterate
    \/ WhileExit
    \/ WhileBodyReturn
    \/ EvalExecute

Spec == Init /\ [][Next]_vars

(***************************************************************************)
(* apply_argmap on its own: every text and argmap of a bounded set         *)
(***************************************************************************)

\* The longest stored text given to apply_argmap
MaxText == 6

RawAlphabet == {"a", "b", "'", "%"}

RawTexts == UNION {[1..n -> RawAlphabet] : n \in 0..MaxText}

\* The argmaps: none, a -> b, and a -> b with b -> a
ArgmapPool == {<<>>, <<"a", "b">>, <<"a", "b", "b", "a">>}

InitArgmap ==
    \E raw \in RawTexts, argmap \in ArgmapPool :
        /\ stack = <<>>
        /\ ctl = Ctl("apply_argmap", NoCmd, Ok)
        /\ data = NewStorage
        /\ input_vec = <<>>
        /\ output_buffer = <<>>
        /\ trace = <<>>
        /\ last_exec = [n |-> 0, raw |-> raw, argmap |-> argmap, text |-> <<>>]

\* The call Self::apply_argmap(prog, argmap.to_string())
ApplyArgmap ==
    /\ ctl.op = "apply_argmap"
    /\ last_exec' = [last_exec EXCEPT
                         !.n = 1,
                         !.text = apply_argmap(last_exec.raw, last_exec.argmap)]
    /\ ctl' = Ctl("done", NoCmd, Ok)
    /\ UNCHANGED <<stack, data, input_vec, output_buffer, trace>>

NextArgmap == ApplyArgmap

SpecArgmap == InitArgmap /\ [][NextArgmap]_vars

(***************************************************************************)
(* The store on its own: any sequence of Storage operations on a store     *)
(* made by Storage::new().  trace is the history of the operations:        *)
(* [op, v, w, val, b] is operation op on variable v (copy: from v to w)    *)
(* with the value val read or written and the boolean b returned.          *)
(***************************************************************************)

\* The most operations of a history
MaxOps == 3

\* The variables the operations are applied to
StoreLetters == {"a", "z"}

\* The values written
StoreValues == {Number(10), Text(<<"x">>), Text(<<>>)}

StoreOp(op, v, w, val, b) == [op |-> op, v |-> v, w |-> w, val |-> val, b |-> b]

InitStore ==
    /\ stack = <<>>
    /\ ctl = Ctl("store", NoCmd, Ok)
    /\ data = NewStorage
    /\ input_vec = <<>>
    /\ output_buffer = <<>>
    /\ trace = <<>>
    /\ last_exec = NoExec

\* One operation on the store, recorded in the history
StoreStep(d, e) ==
    /\ ctl.op = "store"
    /\ Len(trace) < MaxOps
    /\ data' = d
    /\ trace' = Append(trace, e)
    /\ UNCHANGED <<stack, ctl, input_vec, output_buffer, last_exec>>

StoreGet ==
    \E v \in StoreLetters :
        LET g == get_var(data, v)
        IN  StoreStep(g.data, StoreOp("get_var", v, v, g.val, g.some))

StoreSet ==
    \E v \in StoreLetters, val \in StoreValues :
        StoreStep(set_var(data, v, val), StoreOp("set_var", v, v, val, TRUE))

StoreResetVar ==
    \E v \in StoreLetters :
        StoreStep(reset_var(data, v), StoreOp("reset_var", v, v, zero, TRUE))

StoreResetAll ==
    StoreStep(reset_all(data), StoreOp("reset_all", "a", "a", zero, TRUE))

StoreCopy ==
    \E v \in StoreLetters, w \in StoreLetters :
        StoreStep(copy(data, v, w), StoreOp("copy", v, w, get_var(data, v).val, TRUE))

StoreAsBool ==
    \E v \in StoreLetters :
        LET c == var_as_bool(data, v)
        IN  StoreStep(c.data, StoreOp("var_as_bool", v, v, get_var(data, v).val, c.b))

NextStore ==
    \/ StoreGet
    \/ StoreSet
    \/ StoreResetVar
    \/ StoreResetAll
    \/ StoreCopy
    \/ StoreAsBool

SpecStore == InitStore /\ [][NextStore]_vars

(***************************************************************************)
(* One instruction at a time: a source of one arithmetic, boolean, negate, *)
(* input or append instruction, run on every store of a set.  last_exec    *)
(* records the source text the run was made from.                          *)
(***************************************************************************)

InstrSources ==
    {<<"M", op, t, x, y>> :
        op \in {"A","S","M","D","R","E","G","L"},
        t \in {"a", "b", "c"}, x \in {"a", "b"}, y \in {"a", "b"}}
    \cup
    {<<"B", op, t, x, y>> :
        op \in {"E","A","O","X"},
        t \in {"a", "b", "c"}, x \in {"a", "b"}, y \in {"a", "b"}}
    \cup
    {<<"N", v>> : v \in {"a", "b", "c"}}
    \cup
    {<<"G", op, v, i>> : op \in {"N", "S"}, v \in {"a", "c"}, i \in {"0", "1", "2"}}
    \cup
    {<<"A","r","c">>, <<"A","r","c"," ","P","r">>, <<"U","a","P","b">>}

\* The values of a and b: unset, numbers exact in an f64, texts
InstrValues ==
    {None, Number(20), Number(35), Number(0 - 5), Text(<<"x">>), Text(<<>>)}

InstrStores ==
    {Store(a, b, c) : a \in InstrValues, b \in InstrValues, c \in {None, Number(10)}}

InitInstr ==
    \E src \in InstrSources, st \in InstrStores, inv \in InputPool, limit \in LoopLimits :
        LET p == Program_new(Lex(src), st, inv, <<>>, limit)
        IN  /\ stack = <<p.prog>>
            /\ ctl = Ctl("run", NoCmd, Ok)
            /\ data = p.data
            /\ input_vec = p.input_vec
            /\ output_buffer = p.output_buffer
            /\ trace = <<>>
            /\ last_exec = [n |-> 0, raw |-> src, argmap |-> <<>>, text |-> src]

NextInstr ==
    \/ RunStep
    \/ RunFinished
    \/ StepOk
    \/ StepFailed
    \/ EvalMathOp
    \/ EvalBoolOp
    \/ EvalNegate
    \/ EvalGetInput
    \/ EvalUnrecognized

SpecInstr == InitInstr /\ [][NextInstr]_vars

(***************************************************************************)
(* The same program run twice, on the same store and input vector, with    *)
(* two loop limits.  trace starts with a mark that holds the store the     *)
(* runs start from; when the first run is done a second mark takes its     *)
(* result, store and output, and the second run starts.  The calls of      *)
(* evaluate of each run follow its mark.                                   *)
(***************************************************************************)

\* The loop limits of the two runs: --looplimit 1 and the default
LimitPool == {1, 1000}

\* The sources run twice: at most one instruction
LimitSources == {Join(toks) : toks \in UNION {[1..n -> TokenPool] : n \in 0..1}}

Mark(t, d, out, res, limit) ==
    [depth |-> 0, pc |-> 0, t |-> t, step |-> FALSE,
     data |-> d, output_buffer |-> out, res |-> res, limit |-> limit]

InitLimits ==
    \E src \in LimitSources, st \in StorePool, inv \in InputPool, limit \in LimitPool :
        LET p == Program_new(Lex(src), st, inv, <<>>, limit)
        IN  /\ stack = <<p.prog>>
            /\ ctl = Ctl("run", NoCmd, Ok)
            /\ data = p.data
            /\ input_vec = p.input_vec
            /\ output_buffer = p.output_buffer
            /\ trace = <<Mark("Start", st, <<>>, Ok, limit)>>
            /\ last_exec = NoExec

\* The index in trace of the mark of the second run, 0 before it
RerunAt ==
    IF \E i \in 1..Len(trace) : trace[i].t = "Rerun"
    THEN CHOOSE i \in 1..Len(trace) : trace[i].t = "Rerun"
    ELSE 0

\* The first run is done: the same instructions are run on the store and
\* the input vector of the first run, with the other loop limit
Rerun ==
    /\ ctl.op = "done"
    /\ RerunAt = 0
    /\ Len(trace) < MaxTrace
    /\ \E limit \in LimitPool \ {stack[1].loop_limit} :
           LET p == Program_new(stack[1].program_list, trace[1].data,
                                input_vec, <<>>, limit)
           IN  /\ stack' = <<p.prog>>
               /\ data' = p.data
               /\ output_buffer' = p.output_buffer
               /\ trace' = Append(trace, Mark("Rerun", data, output_buffer,
                                              ctl.res, limit))
    /\ ctl' = Ctl("run", NoCmd, Ok)
    /\ last_exec' = NoExec
    /\ UNCHANGED input_vec

NextLimits ==
    \/ Next
    \/ Rerun

SpecLimits == InitLimits /\ [][NextLimits]_vars

(***************************************************************************)
(* The program used after its run: the caller of the top-level run() calls *)
(* run() or step() again on the finished Program.  ctl.op is "again" when  *)
(* such a run() has returned ctl.res and "stepped" when such a step() has. *)
(***************************************************************************)

\* run() on a Program that is finished: the loop is not entered, the
\* stored result is returned
RunAgain ==
    /\ ctl.op \in {"done", "stepped"}
    /\ stack[1].finished
    /\ ctl' = Ctl("again", NoCmd, stack[1].result)
    /\ UNCHANGED <<stack, data, input_vec, output_buffer, trace, last_exec>>

\* step() that keeps its error as the result of the Program
StepAgain_stored ==
    /\ ctl.op \in {"done", "again"}
    /\ stack[1].finished
    /\ ctl' = Ctl("stepped", NoCmd, Err(<<"Program is already finished.">>))
    /\ stack' = [stack EXCEPT ![1].result = Err(<<"Program is already finished.">>)]
    /\ UNCHANGED <<data, input_vec, output_buffer, trace, last_exec>>

\* step() on a Program that is finished: an error, nothing else
StepAgain ==
    /\ ctl.op \in {"done", "again"}
    /\ stack[1].finished
    /\ ctl' = Ctl("stepped", NoCmd, Err(<<"Program is already finished.">>))
    /\ UNCHANGED <<stack, data, input_vec, output_buffer, trace, last_exec>>

NextHost ==
    \/ Next
    \/ RunAgain
    \/ StepAgain

SpecHost == Init /\ [][NextHost]_vars

(***************************************************************************)
(* The tokenizer on its own: a Loop, IfStatement or WhileLoop prefix before *)
(* each instruction form.  last_exec.raw is the source; the tokens are the *)
(* program_list of the Program made from it.                               *)
(***************************************************************************)

\* One source of each instruction form
InstructionForms ==
    { <<"S","b","3">>,
      <<"S","b","4",".","5">>,
      <<"S","b","'","x","'">>,
      <<"C","a","b">>,
      <<"P","b">>,
      <<"P","'","h","i","'">>,
      <<"M","A","c","a","b">>,
      <<"M","S","a","a","b">>,
      <<"M","M","c","a","b">>,
      <<"M","D","c","a","b">>,
      <<"M","R","c","a","b">>,
      <<"M","E","c","a","b">>,
      <<"M","G","c","a","b">>,
      <<"M","L","c","a","b">>,
      <<"B","E","c","a","b">>,
      <<"B","A","c","a","b">>,
      <<"B","O","c","a","b">>,
      <<"B","X","c","a","b">>,
      <<"R","b">>,
      <<"R","A">>,
      <<"G","N","a","0">>,
      <<"G","S","a","1">>,
      <<"N","b">>,
      <<"F">>,
      <<"X","c">>,
      <<"X","c","a","b">>,
      <<"I","c","X","z","a","b","c","d">>,
      <<"L","b","P","b">>,
      <<"W","b","N","b">> }

\* The prefixes L<var>, I<var> and W<var>
LoopPrefixes == {<<c, v>> : c \in {"L", "I", "W"}, v \in {"a", "z"}}

InitLex ==
    \E pre \in LoopPrefixes, X \in InstructionForms :
        /\ stack = <<>>
        /\ ctl = Ctl("lex", NoCmd, Ok)
        /\ data = NewStorage
        /\ input_vec = <<>>
        /\ output_buffer = <<>>
        /\ trace = <<>>
        /\ last_exec = [n |-> 0, raw |-> pre \o X, argmap |-> <<>>, text |-> pre \o X]

\* Program::new(LBT::lexer(source), ...)
Tokenize ==
    /\ ctl.op = "lex"
    /\ stack' = <<Program_new(Lex(last_exec.raw), data, input_vec,
                              output_buffer, 1000).prog>>
    /\ ctl' = Ctl("lexed", NoCmd, Ok)
    /\ UNCHANGED <<data, input_vec, output_buffer, trace, last_exec>>

NextLex == Tokenize

SpecLex == InitLex /\ [][NextLex]_vars

(***************************************************************************)
(* Properties                                                              *)
(***************************************************************************)

\* The calls of evaluate made by the top-level step()
TopEntries == SelectSeq(trace, LAMBDA e : e.depth = 1 /\ e.step)

\* The truthiness of a value: Text, or a Number other than 0
Truthy(val) == val.k = "Text" \/ val.n # 0

\* Whether the top-level program is flat: no Loop, IfStatement or WhileLoop
Flat == \A i \in 1..Len(stack[1].program_list) :
            stack[1].program_list[i].t \notin {"Loop", "IfStatement", "WhileLoop"}

C1_Inv ==
    LET top == stack[1]
        E   == TopEntries
    IN  /\ \A i \in 1..Len(E) : E[i].pc = i - 1 /\ E[i].t = top.program_list[i].t
        /\ (ctl.op = "run" /\ Len(stack) = 1) => top.program_counter = Len(E)
        /\ (ctl.op = "done" /\ ~ctl.res.ok) =>
               /\ top.finished
               /\ top.result = ctl.res
               /\ Len(E) >= 1
               /\ top.program_counter = Last(E).pc

C1_Act ==
    (ctl.op = "ret" /\ Len(stack) = 1 /\ ~ctl.res.ok)
        => (ctl'.op = "done" /\ ctl'.res = ctl.res)

\* C1: run() evaluates the instructions of the top-level sequence in source
\* order from cursor 0, each at most once, the cursor moving by one after
\* every successful instruction; when the instruction at index i fails,
\* run() returns that error, finished is true, the cursor stays at i and no
\* instruction beyond i is evaluated.
C1_RunInOrder == [](C1_Inv) /\ [][C1_Act]_vars

\* C1 witness: a flat program whose instruction at index 1 failed after the
\* instruction at index 0 succeeded
C1_Witness ==
    /\ ctl.op = "done"
    /\ ~ctl.res.ok
    /\ Flat
    /\ stack[1].program_counter = 1
    /\ Len(TopEntries) = 2

C2_Inv ==
    \A j \in 1..Len(trace) :
        (trace[j].depth = 1 /\ trace[j].step /\ trace[j].t = "Finish") =>
            /\ j = Len(trace)
            /\ ctl.op \in {"ret", "run", "done"} => stack[1].finished
            /\ ctl.op = "done" =>
                   /\ ctl.res.ok
                   /\ stack[1].program_counter = trace[j].pc + 1

C2_Act ==
    (Len(trace) > 0 /\ Last(trace).depth = 1 /\ Last(trace).step
        /\ Last(trace).t = "Finish")
        => (data' = data /\ output_buffer' = output_buffer /\ trace' = trace)

\* C2: once a Finish at top-level index i is evaluated, run() returns
\* success with finished true, and no instruction is evaluated after it:
\* the store and the output buffer stay those left by instructions 0..i.
C2_FinishHalts == [](C2_Inv) /\ [][C2_Act]_vars

\* C2 witness: a run that ended on a Finish with an instruction after it
C2_Witness ==
    /\ ctl.op = "done"
    /\ Len(trace) > 0
    /\ Last(trace).depth = 1
    /\ Last(trace).step
    /\ Last(trace).t = "Finish"
    /\ Last(trace).pc + 1 < Len(stack[1].program_list)

C3_Act ==
    (ctl.op = "ret" /\ ~ctl.res.ok) =>
        /\ ctl'.op \in {"ret", "done"}
        /\ ctl'.res = ctl.res
        /\ trace' = trace
        /\ ctl'.op = "ret" => Len(stack') = Len(stack) - 1
        /\ ctl'.op = "done" => (stack'[1].finished /\ stack'[1].result = ctl.res)

\* C3: an error returned by an instruction at any nesting depth is handed
\* up unchanged, frame by frame, through every enclosing Loop, WhileLoop
\* and Execute, with no further evaluation, until the top-level run()
\* returns it, finished and with that error as its result.
C3_ErrorPropagates == [][C3_Act]_vars

\* C3 witness: a run that failed in the text of an Execute inside a loop
C3_Witness ==
    /\ ctl.op = "done"
    /\ ~ctl.res.ok
    /\ Last(trace).depth >= 3

C4_Act ==
    (ctl.op = "ret" /\ ~ctl.res.ok)
        => (data' = data /\ output_buffer' = output_buffer)

C4_Inv ==
    (ctl.op = "done" /\ ~ctl.res.ok /\ Len(trace) >= 2
        /\ trace[1].t = "PrintVar" /\ trace[2].t = "Error")
        => Len(output_buffer) > 0

\* C4: from the moment an instruction fails until run() returns, the store
\* and the output buffer are left as they are: what the instructions before
\* the failing one wrote and printed is still there.
C4_NoRollback == [](C4_Inv) /\ [][C4_Act]_vars

\* C4 witness: a failed run, after a subtraction wrote a and a print added
\* to the output at a deeper level
C4_Witness ==
    /\ ctl.op = "done"
    /\ ~ctl.res.ok
    /\ trace[1].t = "MathOp"
    /\ Read(data, "a") = Number(10)
    /\ Len(output_buffer) > 0

C5_Act ==
    LET pushed == Len(stack') = Len(stack) + 1 /\ stack'[Len(stack')].k = "Program"
        popped == Len(stack') = Len(stack) - 1 /\ Top.k = "Program"
    IN  (pushed \/ popped) =>
            /\ ReadAll(data') = ReadAll(data)
            /\ input_vec' = input_vec
            /\ output_buffer' = output_buffer

\* C5: the text run by Execute works on the caller's store, input vector
\* and output buffer: entering the nested program and returning from it
\* change no variable's readable value, nor the input, nor the output.
C5_SharedStore == [][C5_Act]_vars

\* C5 witness: the caller's Pb printed the 'y' the nested program saved in
\* b, after the nested program's own print
C5_Witness ==
    /\ ctl.op = "done"
    /\ last_exec.n = 1
    /\ output_buffer = <<"h", "i", "y">>

RECURSIVE literals_at(_, _)
\* The single-quoted literals of a text from index i on, each with the
\* index it starts at
literals_at(text, i) ==
    IF i > Len(text) THEN <<>>
    ELSE IF QuoteLen(text, i) > 0
         THEN <<<<i, SubSeq(text, i, i + QuoteLen(text, i) - 1)>>>>
                  \o literals_at(text, i + QuoteLen(text, i))
         ELSE literals_at(text, i + 1)

\* C6: parameter substitution changes no character of a single-quoted
\* literal: the literals of the executed text are, position by position and
\* character by character, the literals of the stored text.
C6_LiteralsKept ==
    last_exec.n > 0 => literals_at(last_exec.text, 1) = literals_at(last_exec.raw, 1)

C7_Act ==
    (IsEval("Execute") /\ Read(data, ctl.cmd.a[1]).k = "Number") =>
        /\ ctl'.op = "ret"
        /\ ~ctl'.res.ok
        /\ stack' = stack
        /\ trace' = trace
        /\ last_exec' = last_exec
        /\ output_buffer' = output_buffer
        /\ ReadAll(data') = ReadAll(data)

\* C7: Execute on a variable that holds a Number (a never-written variable
\* reads as 0) returns an error at once: no sub-program is created, no
\* instruction is evaluated, and the output buffer and every variable's
\* readable value are unchanged.
C7_ExecuteNeedsText == [][C7_Act]_vars

\* C7 witness: Execute of the never-written c has just failed
C7_Witness ==
    /\ ctl.op = "ret"
    /\ ctl.res = Err(<<"X: Variable ", "c", " is not a string">>)
    /\ Read(data, "c") = zero

\* A WhileLoop frame whose body subtracts from cond a variable holding 1,
\* entered with cond a non-negative integer
Countdown(f) ==
    /\ f.subcommand.t = "MathOp"
    /\ f.subcommand.a[1] = "S"
    /\ f.subcommand.a[2] = f.cond
    /\ f.subcommand.a[3] = f.cond
    /\ f.subcommand.a[4] # f.cond
    /\ Read(data, f.subcommand.a[4]) = Number(10)
    /\ f.entry.k = "Number"
    /\ f.entry.n >= 0
    /\ f.entry.n % 10 = 0

C8_Act ==
    /\ IsEval("WhileLoop") =>
           /\ ctl'.op = "while"
           /\ trace' = trace
           /\ Len(stack') = Len(stack) + 1
           /\ stack'[Len(stack')].runs = 0
    /\ ctl.op = "while" =>
           IF Truthy(Read(data, Top.cond))
           THEN /\ ctl'.op = "eval"
                /\ ctl'.cmd = Top.subcommand
                /\ Len(trace') = Len(trace) + 1
                /\ stack' = [stack EXCEPT ![Len(stack)].runs = @ + 1]
           ELSE /\ ctl' = Ctl("ret", NoCmd, Ok)
                /\ stack' = Pop
                /\ trace' = trace
    /\ (ctl.op = "ret" /\ Top.k = "WhileLoop" /\ ctl.res.ok) =>
           /\ ctl'.op = "while"
           /\ stack' = stack
           /\ trace' = trace

C8_Inv ==
    (ctl.op = "while" /\ Countdown(Top)) =>
        /\ Read(data, Top.cond) = Number(Top.entry.n - 10 * Top.runs)
        /\ ~Truthy(Read(data, Top.cond)) => 10 * Top.runs = Top.entry.n

\* C8: WhileLoop checks cond before every evaluation of its body, the first
\* included: on entry and after each body it is at its check, where a
\* truthy cond starts the body and a falsy cond ends the loop with Ok; with
\* cond = n >= 0 an integer and a body that subtracts 1 from cond, the body
\* has run n times when cond is found falsy, and cond is 0.
C8_WhileChecksFirst == [](C8_Inv) /\ [][C8_Act]_vars

\* C8 witness: the check that ends a countdown from 2, after two bodies
C8_Witness ==
    /\ ctl.op = "while"
    /\ Countdown(Top)
    /\ Top.entry = Number(20)
    /\ Top.runs = 2
    /\ Read(data, Top.cond) = zero

\* The integer part of a number of tenths, by its definition
FloorOf(n) == CHOOSE q \in (0 - MaxNum)..MaxNum : 10 * q <= n /\ n < 10 * (q + 1)

C9_Inv ==
    ctl.op = "loop" =>
        Top.runs + Max(0, Top.loops) = Max(0, FloorOf(Top.entry.n))

C9_Act ==
    /\ (IsEval("Loop") /\ Read(data, ctl.cmd.a[1]).k = "Text") =>
           /\ ctl'.op = "ret"
           /\ ~ctl'.res.ok
           /\ stack' = stack
           /\ trace' = trace
    /\ (IsEval("Loop") /\ Read(data, ctl.cmd.a[1]).k = "Number") =>
           /\ ctl'.op = "loop"
           /\ trace' = trace
           /\ stack'[Len(stack')].runs = 0
           /\ stack'[Len(stack')].entry = Read(data, ctl.cmd.a[1])
    /\ ctl.op = "loop" =>
           IF Top.runs < Max(0, FloorOf(Top.entry.n))
           THEN /\ ctl'.op = "eval"
                /\ ctl'.cmd = Top.subcommand
                /\ stack' = [stack EXCEPT ![Len(stack)].runs = @ + 1]
           ELSE /\ ctl' = Ctl("ret", NoCmd, Ok)
                /\ stack' = Pop
                /\ trace' = trace

\* C9: a Loop whose count variable holds a Number evaluates its body
\* max(0, floor(count)) times and then returns Ok (its bodies succeeding):
\* no time for a count of 0 or below, 3 times for 3.9; a Loop whose count
\* variable holds Text fails without evaluating its body.
C9_LoopCount == [](C9_Inv) /\ [][C9_Act]_vars

\* C9 witness: the Loop entered with count 3.9 is about to return, its body
\* evaluated 3 times
C9_Witness ==
    /\ ctl.op = "loop"
    /\ Top.entry = Number(39)
    /\ Top.runs = 3
    /\ Top.loops = 0

C10_Act ==
    IsEval("IfStatement") =>
        /\ stack' = stack
        /\ output_buffer' = output_buffer
        /\ ReadAll(data') = ReadAll(data)
        /\ IF Truthy(Read(data, ctl.cmd.a[1]))
           THEN /\ ctl'.op = "eval"
                /\ ctl'.cmd = ctl.cmd.a[2]
                /\ Len(trace') = Len(trace) + 1
           ELSE /\ ctl' = Ctl("ret", NoCmd, Ok)
                /\ trace' = trace

\* C10: IfStatement with a truthy cond makes one call of evaluate on its
\* body, in its own place, so that the body's result is its result; with a
\* falsy cond it returns Ok without evaluating the body; either way the
\* statement itself changes neither the output buffer nor any variable's
\* readable value.
C10_IfOnce == [][C10_Act]_vars

\* C10 witness: the body of an IfStatement with a truthy cond is being
\* evaluated, called by the IfStatement and not by step()
C10_Witness ==
    /\ ctl.op = "eval"
    /\ Len(trace) >= 2
    /\ trace[Len(trace) - 1].t = "IfStatement"
    /\ ~Last(trace).step
    /\ Last(trace).depth = trace[Len(trace) - 1].depth
    /\ Last(trace).t = ctl.cmd.t

\* The operations of the history that write v, and those that reset it
WritesOf(v) ==
    {i \in 1..Len(trace) : \/ trace[i].op = "set_var" /\ trace[i].v = v
                           \/ trace[i].op = "copy" /\ trace[i].w = v}

ResetsOf(v) ==
    {i \in 1..Len(trace) : \/ trace[i].op = "reset_var" /\ trace[i].v = v
                           \/ trace[i].op = "reset_all"}

\* v has not been written since the start, its last reset_var or the last
\* reset_all
Unwritten(v) ==
    \A i \in WritesOf(v) : \E j \in ResetsOf(v) : j > i

C11_Inv ==
    /\ \A v \in VALID_VARS :
           Unwritten(v) => get_var(data, v).some /\ get_var(data, v).val = zero
    /\ \A i \in 1..Len(trace) : trace[i].op = "get_var" => trace[i].b
    /\ (Len(trace) > 0 /\ Last(trace).op = "reset_all") =>
           \A v \in VALID_VARS : get_var(data, v).some /\ get_var(data, v).val = zero

C11_Act ==
    \A v \in StoreLetters :
        (Unwritten(v) /\ Len(trace') = Len(trace) + 1
            /\ Last(trace').op = "get_var" /\ Last(trace').v = v)
        => Last(trace').b /\ Last(trace').val = zero

\* C11: after any sequence of store operations, a read of a lowercase
\* letter not written since the start, since its last reset_var or since
\* the last reset_all succeeds and returns Number(0); after reset_all every
\* one of the 26 letters reads Number(0).
C11_UnsetReadsZero == [](C11_Inv) /\ [][C11_Act]_vars

\* C11 witness: z was written, everything was reset, and z is read
C11_Witness ==
    /\ Len(trace) = 3
    /\ trace[1].op = "set_var" /\ trace[1].v = "z" /\ trace[1].val = Text(<<"x">>)
    /\ trace[2].op = "reset_all"
    /\ trace[3].op = "get_var" /\ trace[3].v = "z" /\ trace[3].val = zero

C12_Inv ==
    /\ \A v \in VALID_VARS :
           /\ var_as_bool(data, v).some
           /\ var_as_bool(data, v).b <=> Truthy(Read(data, v))
           /\ Unwritten(v) => ~var_as_bool(data, v).b
    /\ \A i \in 1..Len(trace) :
           trace[i].op = "var_as_bool" =>
               (trace[i].b <=> (trace[i].val.k = "Text" \/ trace[i].val # Number(0)))

\* C12: as_bool of a variable is true iff the variable holds Text, the
\* empty string included, or a Number other than 0; it is false exactly for
\* Number(0), which every unset variable reads as.
C12_AsBool == [](C12_Inv)

\* C12 witness: as_bool has answered true for a variable holding ''
C12_Witness ==
    /\ Len(trace) > 0
    /\ Last(trace).op = "var_as_bool"
    /\ Last(trace).val = Text(<<>>)
    /\ Last(trace).b

\* The truth table of a boolean operation
TruthTable(op, p, q) ==
    CASE op = "E" -> (p <=> q)
      [] op = "A" -> (p /\ q)
      [] op = "O" -> (p \/ q)
      [] op = "X" -> ~(p <=> q)

C13_Act ==
    IsEval("BoolOp") =>
        LET op == ctl.cmd.a[1]
            p  == Truthy(Read(data, ctl.cmd.a[3]))
            q  == Truthy(Read(data, ctl.cmd.a[4]))
        IN  /\ ctl'.op = "ret"
            /\ ctl'.res.ok
            /\ Read(data', ctl.cmd.a[2]) =
                   (IF TruthTable(op, p, q) THEN Number(10) ELSE Number(0))
            /\ \A v \in VALID_VARS \ {ctl.cmd.a[2]} : Read(data', v) = Read(data, v)

\* C13: BoolOp(op, target, a, b) with op in {E, A, O, X} never fails,
\* whatever kinds of value a and b hold, and writes to target Number(1) or
\* Number(0) by the truth table of equality, and, or, exclusive-or on
\* as_bool(a) and as_bool(b).
C13_BoolOp == [][C13_Act]_vars

\* C13 witness: an exclusive-or of a Text and a non-zero Number gave 0
C13_Witness ==
    /\ ctl.op = "ret"
    /\ ctl.res.ok
    /\ last_exec.raw = <<"B","X","c","a","b">>
    /\ Read(data, "a").k = "Text"
    /\ Read(data, "b") = Number(35)
    /\ Read(data, "c") = Number(0)

C14_Act ==
    (/\ IsEval("MathOp")
     /\ \/ Read(data, ctl.cmd.a[3]).k = "Text"
        \/ Read(data, ctl.cmd.a[4]).k = "Text")
    => /\ ctl'.op = "ret"
       /\ ~ctl'.res.ok
       /\ ReadAll(data') = ReadAll(data)

\* C14: MathOp with either source operand holding Text fails, and the
\* target is not written: it, like every variable, reads as before.
C14_MathOpNeedsNumbers == [][C14_Act]_vars

\* C14 witness: MAcab has failed on a Text in b, and c still holds 1
C14_Witness ==
    /\ ctl.op = "ret"
    /\ ~ctl.res.ok
    /\ last_exec.raw = <<"M","A","c","a","b">>
    /\ Read(data, "a") = Number(20)
    /\ Read(data, "b").k = "Text"
    /\ Read(data, "c") = Number(10)

Range == (0 - 10 * MaxNum)..(10 * MaxNum)

\* a op b on numbers of tenths, by the meaning of the operation
Expected(op, n_a, n_b) ==
    CASE op = "A" -> n_a + n_b
      [] op = "S" -> n_a - n_b
      [] op = "M" -> CHOOSE r \in Range : 10 * r = n_a * n_b
      [] op = "R" -> CHOOSE r \in Range :
                         /\ Abs(r) < Abs(n_b)
                         /\ r # 0 => ((r < 0) <=> (n_a < 0))
                         /\ \E q \in Range : n_a = q * n_b + r
      [] op = "E" -> IF n_a = n_b THEN 10 ELSE 0
      [] op = "G" -> IF n_a > n_b THEN 10 ELSE 0
      [] op = "L" -> IF n_a < n_b THEN 10 ELSE 0

C15_Act ==
    (/\ IsEval("MathOp")
     /\ ctl.cmd.a[1] \in {"A", "S", "M", "R", "E", "G", "L"}
     /\ Read(data, ctl.cmd.a[3]).k = "Number"
     /\ Read(data, ctl.cmd.a[4]).k = "Number")
    => /\ ctl'.op = "ret"
       /\ ctl'.res.ok
       /\ Read(data', ctl.cmd.a[2]) =
              Number(Expected(ctl.cmd.a[1], Read(data, ctl.cmd.a[3]).n,
                              Read(data, ctl.cmd.a[4]).n))
       /\ \A v \in VALID_VARS \ {ctl.cmd.a[2]} : Read(data', v) = Read(data, v)

\* C15: MathOp(op, target, a, b) on Number operands writes to target the
\* value a op b (A, S, M, R; E, G, L give 1 or 0) of the values a and b
\* held before the write, also when target is a or b, and changes no other
\* variable.
C15_MathOp == [][C15_Act]_vars

\* C15 witness: MSbab on a = 2, b = 3.5 has set b to -1.5
C15_Witness ==
    /\ ctl.op = "ret"
    /\ ctl.res.ok
    /\ last_exec.raw = <<"M","S","b","a","b">>
    /\ Read(data, "a") = Number(20)
    /\ Read(data, "b") = Number(0 - 15)

C16_Act ==
    IsEval("Negate") =>
        /\ ctl'.op = "ret"
        /\ ctl'.res.ok
        /\ Read(data', ctl.cmd.a[1]) =
               (IF Truthy(Read(data, ctl.cmd.a[1])) THEN Number(0) ELSE Number(10))
        /\ \A v \in VALID_VARS \ {ctl.cmd.a[1]} : Read(data', v) = Read(data, v)

\* C16: after Negate(v), v reads Number(0) if it was truthy before (a
\* non-zero Number or any Text) and Number(1) if it was falsy: exactly 0 or
\* 1, and no other variable changes.
C16_Negate == [][C16_Act]_vars

\* C16 witness: Na has returned and a, truthy before, reads 0
C16_Witness ==
    /\ ctl.op = "ret"
    /\ ctl.res.ok
    /\ last_exec.raw = <<"N", "a">>
    /\ "a" \notin DOMAIN data
    /\ Read(data, "b") = Text(<<>>)

C17_Act ==
    /\ input_vec' = input_vec
    /\ IsEval("GetInput") =>
           LET op    == ctl.cmd.a[1]
               var   == ctl.cmd.a[2]
               index == FloorOf(ctl.cmd.a[3])
           IN  /\ ctl'.op = "ret"
               /\ IF index >= Len(input_vec)
                  THEN ~ctl'.res.ok /\ ReadAll(data') = ReadAll(data)
                  ELSE IF op = "N" /\ ~parse_f64(input_vec[index + 1]).ok
                  THEN ~ctl'.res.ok /\ ReadAll(data') = ReadAll(data)
                  ELSE /\ ctl'.res.ok
                       /\ Read(data', var) =
                              (IF op = "S" THEN Text(input_vec[index + 1])
                               ELSE Number(parse_f64(input_vec[index + 1]).n))
                       /\ \A v \in VALID_VARS \ {var} : Read(data', v) = Read(data, v)

\* C17: GetInput(op, var, index) with index at or beyond the length of the
\* input vector fails, and op N on an input that is not a number fails, var
\* and every other variable reading as before; with a valid index op S
\* stores the input as Text, verbatim, and op N its numeric value; no step
\* changes the input vector.
C17_GetInput == [][C17_Act]_vars

\* C17 witness: GNa1 has failed on the input 'Pb Q' and a still holds 2
C17_Witness ==
    /\ ctl.op = "ret"
    /\ ~ctl.res.ok
    /\ last_exec.raw = <<"G","N","a","1">>
    /\ input_vec[2] = <<"P","b"," ","Q">>
    /\ Read(data, "a") = Number(20)

\* The source being run starts with the append instruction Arc
StartsWithAppend ==
    /\ Len(last_exec.raw) >= 3
    /\ SubSeq(last_exec.raw, 1, 3) = <<"A", "r", "c">>

C20_Act ==
    (/\ StartsWithAppend
     /\ ctl.op = "eval"
     /\ Len(stack) = 1
     /\ Self.program_counter = 0)
    => /\ ctl'.op = "ret"
       /\ ctl'.res.ok
       /\ Read(data', "r") =
              Text(Display(Read(data, "r")) \o Display(Read(data, "c")))

C20_Inv ==
    (ctl.op = "done" /\ last_exec.raw = <<"A","r","c"," ","P","r">>) =>
        /\ ctl.res.ok
        /\ output_buffer = Display(Read(data, "r"))
        /\ Read(data, "r").k = "Text"

\* C20: an append instruction A<r><c> succeeds and sets r to the Text made
\* of the display of r's value followed by the display of c's value, for
\* any kinds of value in r and c; `Arc Pr` then prints that Text ("00" on a
\* fresh store).
C20_Append == [](C20_Inv) /\ [][C20_Act]_vars

\* C18: no single loop runs its body more than loop_limit times: the body
\* evaluations started by a Loop or WhileLoop in progress never exceed the
\* loop limit of the run.
C18_LoopLimited ==
    \A i \in 1..Len(stack) :
        stack[i].k \in {"Loop", "WhileLoop"} => stack[i].runs <= stack[1].loop_limit

C19_Inv ==
    /\ \A i \in 1..Len(stack) :
           stack[i].k = "Program" => stack[i].loop_limit = stack[1].loop_limit
    /\ RerunAt > 0 =>
           /\ stack[1].loop_limit # trace[1].limit
           /\ \A i \in 1..(Len(trace) - RerunAt) :
                  /\ i <= RerunAt - 2
                  /\ trace[RerunAt + i] = trace[1 + i]
    /\ (RerunAt > 0 /\ ctl.op = "done") =>
           /\ Len(trace) - RerunAt = RerunAt - 2
           /\ ctl.res = trace[RerunAt].res
           /\ data = trace[RerunAt].data
           /\ output_buffer = trace[RerunAt].output_buffer

C21_Act ==
    (/\ last_exec.raw = <<"U","a","P","b">>
     /\ ctl.op = "eval"
     /\ Len(stack) = 1
     /\ Self.program_counter = 0
     /\ Len(trace) = 1)
    => IF Truthy(Read(data, "a"))
       THEN /\ ctl'.op = "ret"
            /\ ctl'.res.ok
            /\ output_buffer' = output_buffer
       ELSE /\ ctl'.op = "eval"
            /\ ctl'.cmd = Ins("PrintVar", <<"b">>)

C21_Inv ==
    (ctl.op = "done" /\ last_exec.raw = <<"U","a","P","b">>) =>
        /\ ctl.res.ok
        /\ output_buffer = (IF Truthy(Read(data, "a")) THEN <<>>
                            ELSE Display(Read(data, "b")))

\* C21: an unless instruction U<var><instr> succeeds and evaluates the
\* nested instruction once iff var is falsy, and not at all when var is
\* truthy: `UaPb` prints b when a is falsy and nothing when a is truthy.
C21_Unless == [](C21_Inv) /\ [][C21_Act]_vars

C22_Act ==
    /\ (ctl.op = "run" /\ Top.k = "Program" /\ Len(Top.program_list) = 0) =>
           /\ output_buffer' = output_buffer
           /\ data' = data
           /\ trace' = trace
           /\ IF Len(stack) = 1
              THEN /\ ctl' = Ctl("done", NoCmd, Ok)
                   /\ stack'[1].finished
                   /\ stack'[1].result = Ok
              ELSE /\ ctl' = Ctl("ret", NoCmd, Ok)
                   /\ stack' = Pop
    /\ (IsEval("Execute") /\ Read(data, ctl.cmd.a[1]) = Text(<<>>)
            /\ \A i \in 1..Len(ctl.cmd.a[2]) : is_var(ctl.cmd.a[2][i])) =>
           /\ ctl'.op = "run"
           /\ stack'[Len(stack')].program_list = <<>>
           /\ output_buffer' = output_buffer
           /\ ReadAll(data') = ReadAll(data)

\* C22: running an empty instruction sequence, at top level or as the
\* empty text of an Execute, returns success, with finished true, appends
\* nothing to the output buffer, changes no variable and evaluates nothing.
C22_EmptyRuns == [][C22_Act]_vars

\* C22 witness: the Execute of an empty text, the only instruction so far,
\* has returned success
C22_Witness ==
    /\ ctl = Ctl("ret", NoCmd, Ok)
    /\ Len(stack) = 1
    /\ Len(trace) = 1
    /\ trace[1].t = "Execute"
    /\ last_exec.n = 1
    /\ last_exec.text = <<>>
    /\ output_buffer = <<>>

\* s is a prefix of t
IsPrefix(s, t) == Len(s) <= Len(t) /\ SubSeq(t, 1, Len(s)) = s

C23_Act ==
    /\ IsPrefix(output_buffer, output_buffer')
    /\ output_buffer' # output_buffer => (IsEval("PrintVar") \/ IsEval("PrintStr"))
    /\ IsEval("PrintVar") =>
           output_buffer' = output_buffer \o Display(Read(data, ctl.cmd.a[1]))
    /\ IsEval("PrintStr") =>
           output_buffer' = output_buffer \o ctl.cmd.a[1]

\* C23: the output buffer is append-only over the whole run, nested
\* Execute runs included: every step keeps the old buffer as a prefix of
\* the new one, only PrintVar and PrintStr extend it, by the display of the
\* variable's value and by the literal, so that it always is the
\* concatenation of the printed texts in execution order.
C23_AppendOnly == [][C23_Act]_vars

\* C23 witness: a PrintVar of a nested run has printed after the caller did
C23_Witness ==
    /\ ctl.op = "ret"
    /\ Len(trace) = 3
    /\ trace[1].t = "PrintVar" /\ trace[1].depth = 1
    /\ trace[3].t = "PrintVar" /\ trace[3].depth = 2
    /\ output_buffer = <<"1", "1">>

C24_Inv ==
    /\ ctl.op \in {"done", "again", "stepped"} => stack[1].finished
    /\ ctl.op \in {"done", "again"} => ctl.res = stack[1].result
    /\ ctl.op = "stepped" => ~ctl.res.ok

C24_Act ==
    ctl.op \in {"done", "again", "stepped"} =>
        /\ ctl'.op \in {"again", "stepped"}
        /\ stack' = stack
        /\ data' = data
        /\ output_buffer' = output_buffer
        /\ trace' = trace

\* C24: once the program is finished, step() returns an error and leaves
\* the store, the output buffer, the cursor and the stored result as they
\* are, and run() returns the stored result without evaluating anything:
\* every further run() returns what the first returned and changes nothing.
C24_FinishedIsFinal == [](C24_Inv) /\ [][C24_Act]_vars

\* C24 witness: after a run that failed at its second instruction, having
\* printed, a further run() has returned the error of that run
C24_Witness ==
    /\ ctl.op = "again"
    /\ ~ctl.res.ok
    /\ ctl.res.msg # <<"Program is already finished.">>
    /\ Len(output_buffer) > 0
    /\ stack[1].program_counter = 1

C25_Act ==
    /\ IsEval("Finish") => ctl' = Ctl("ret", NoCmd, Ok)
    /\ (\E i \in 1..Len(trace) : trace[i].t = "Finish") => trace' = trace

\* C25: Finish stops the whole run wherever it is evaluated, in the body of
\* a Loop, IfStatement or WhileLoop or in text run by Execute: it completes
\* successfully, and once a Finish has been evaluated no instruction is
\* evaluated any more.
C25_FinishStopsAll == [][C25_Act]_vars

\* The kind of instruction a prefix letter stands for
KindOf(c) ==
    CASE c = "L" -> "Loop"
      [] c = "I" -> "IfStatement"
      [] c = "W" -> "WhileLoop"

\* C26: for every instruction form X, the sources L<var>X, I<var>X and
\* W<var>X tokenize to exactly one instruction, Loop, IfStatement or
\* WhileLoop on var, whose nested instruction is the one X tokenizes to on
\* its own, and to no other token.
C26_NestedForms ==
    ctl.op = "lexed" =>
        LET src == last_exec.raw
            X   == SubSeq(src, 3, Len(src))
        IN  /\ Len(Lex(X)) = 1
            /\ stack[1].program_list = <<Ins(KindOf(src[1]), <<src[2], Lex(X)[1]>>)>>

\* Index i of text lies in one of its single-quoted literals
InLiteral(text, i) ==
    \E k \in 1..Len(literals_at(text, 1)) :
        LET lit == literals_at(text, 1)[k]
        IN  lit[1] <= i /\ i < lit[1] + Len(lit[2])

\* The argument the argmap gives for letter c: that of the first pair whose
\* parameter is c, and c itself when it is no parameter
ArgOf(c, argmap) ==
    LET P == {k \in 1..(Len(argmap) \div 2) : argmap[2 * k - 1] = c}
    IN  IF P = {} THEN c
        ELSE argmap[2 * (CHOOSE k \in P : \A j \in P : k <= j)]

\* C27: for every pair (p, q) of the argmap, every occurrence of p outside
\* literals in the stored text is q in the executed text, also when q is the
\* parameter of another pair (argmap abba swaps a and b), and letters that
\* are no parameter stay as they are.  Stated for stored texts without %.
C27_PairsTogether ==
    (/\ last_exec.n > 0
     /\ \A i \in 1..Len(last_exec.raw) : last_exec.raw[i] # "%")
    => /\ Len(last_exec.text) = Len(last_exec.raw)
       /\ \A i \in 1..Len(last_exec.raw) :
              ~InLiteral(last_exec.raw, i) =>
                  last_exec.text[i] = ArgOf(last_exec.raw[i], last_exec.argmap)

\* C28: masking and restoring literals is a round trip: with an empty
\* argmap the executed text is the stored text, character for character,
\* for every stored text, those with %%% in or outside literals included.
C28_RoundTrip ==
    (last_exec.n > 0 /\ last_exec.argmap = <<>>) => last_exec.text = last_exec.raw

C29_Inv ==
    \A i \in 1..Len(stack) :
        stack[i].k = "Loop" =>
            stack[i].runs + Max(0, stack[i].loops) =
                Max(0, FloorOf(stack[i].entry.n))
                    + (IF i = Len(stack) /\ ctl.op = "loop" THEN 0 ELSE 1)

C29_Act ==
    \A i \in 1..Len(stack) :
        (stack[i].k = "Loop" /\ Len(stack') >= i) =>
            /\ stack'[i].k = "Loop"
            /\ stack'[i].entry = stack[i].entry
            /\ stack'[i].subcommand = stack[i].subcommand
            /\ \/ stack'[i].loops = stack[i].loops
               \/ /\ i = Len(stack)
                  /\ ctl.op = "ret"
                  /\ ctl.res.ok
                  /\ stack'[i].loops = stack[i].loops - 1

\* C29: Loop reads its count variable once, before the first iteration: the
\* number of evaluations of its body is fixed by the value read on entry,
\* the remaining count only goes down by one per completed body, and a
\* write to the count variable by the body, or by an Execute in it, neither
\* shortens nor extends the loop.
C29_CountReadOnce == [](C29_Inv) /\ [][C29_Act]_vars

\* C29 witness: the loop La entered with a = 2 ends after 2 bodies, each of
\* which took 1 from a, which now reads 0
C29_Witness ==
    /\ ctl.op = "loop"
    /\ Len(stack) = 2
    /\ Top.k = "Loop"
    /\ Top.entry = Number(20)
    /\ Top.runs = 2
    /\ Top.loops = 0
    /\ stack[1].program_list[stack[1].program_counter + 1].t = "Loop"
    /\ stack[1].program_list[stack[1].program_counter + 1].a[1] = "a"
    /\ Read(data, "a") = zero

=============================================================================
